---- MODULE Spec2Model ----
(***************************************************************************)
(* A model of nix-source (src/src/main.rs): a registry file of named       *)
(* download sources, and the add / update / rm commands that refresh the   *)
(* cached hash, validators and type of each source.                        *)
(*                                                                         *)
(* Each command invocation is one action.  The HTTP server's answer and    *)
(* the two external processes' outcomes are the inputs of an invocation.   *)
(* Text (file names, header values, process output) is modelled by TLA+    *)
(* strings and is taken apart character by character as the code does.     *)
(***************************************************************************)
EXTENDS Naturals, Sequences, FiniteSets, TLC

VARIABLES file, inv, arg, ret

vars == <<file, inv, arg, ret>>

(***************************************************************************)
(* Option<T>: None is the empty tuple, Some(x) the one-element tuple.      *)
(***************************************************************************)
None == <<>>

Some(x) == <<x>>

IsSome(o) == o # <<>>

Get(o) == o[1]

UnwrapOrDefault(o) == IF IsSome(o) THEN Get(o) ELSE ""

(***************************************************************************)
(* Strings.                                                                *)
(***************************************************************************)
CharAt(s, i) == SubSeq(s, i, i)

\* The first place at or after i (the last at or before i) where s has a
\* character of the set C; 0 when there is none.
RECURSIVE FindFrom(_, _, _)
FindFrom(s, C, i) ==
    IF i > Len(s) THEN 0
    ELSE IF CharAt(s, i) \in C THEN i
    ELSE FindFrom(s, C, i + 1)

RECURSIVE RFindFrom(_, _, _)
RFindFrom(s, C, i) ==
    IF i < 1 THEN 0
    ELSE IF CharAt(s, i) \in C THEN i
    ELSE RFindFrom(s, C, i - 1)

Find(s, c) == FindFrom(s, {c}, 1)

RFind(s, c) == RFindFrom(s, {c}, Len(s))

StartsWith(s, p) == Len(s) >= Len(p) /\ SubSeq(s, 1, Len(p)) = p

EndsWith(s, p) == Len(s) >= Len(p) /\ SubSeq(s, Len(s) - Len(p) + 1, Len(s)) = p

RECURSIVE Split(_, _)
Split(s, c) ==
    LET i == Find(s, c)
    IN  IF i = 0 THEN <<s>>
        ELSE <<SubSeq(s, 1, i - 1)>> \o Split(SubSeq(s, i + 1, Len(s)), c)

DigitChars == {"0", "1", "2", "3", "4", "5", "6", "7", "8", "9"}

LowerChars ==
    {"a", "b", "c", "d", "e", "f", "g", "h", "i", "j", "k", "l", "m",
     "n", "o", "p", "q", "r", "s", "t", "u", "v", "w", "x", "y", "z"}

UpperChars ==
    {"A", "B", "C", "D", "E", "F", "G", "H", "I", "J", "K", "L", "M",
     "N", "O", "P", "Q", "R", "S", "T", "U", "V", "W", "X", "Y", "Z"}

WhitespaceChars == {" ", "\n", "\t", "\r"}

(***************************************************************************)
(* sanitize_file_name (main.rs 76-93).  The first character is pushed as   *)
(* it is unless it is '.', every later character goes through the match.   *)
(***************************************************************************)
SanitizeChar(c) ==
    IF c \in DigitChars \cup LowerChars \cup UpperChars
              \cup {"+", "-", ".", "_", "?", "="}
    THEN c ELSE "_"

RECURSIVE SanitizeRest(_)
SanitizeRest(s) ==
    IF s = "" THEN ""
    ELSE SanitizeChar(CharAt(s, 1)) \o SanitizeRest(SubSeq(s, 2, Len(s)))

SanitizeFirst(c) == IF c = "." THEN "_" ELSE c

sanitize_file_name(name) ==
    IF name = "" THEN "source"
    ELSE SanitizeFirst(CharAt(name, 1)) \o SanitizeRest(SubSeq(name, 2, Len(name)))

(***************************************************************************)
(* std::path::Path on Unix, as far as main.rs 151-154 uses it.             *)
(* file_name: the last component, unless it is "..": empty components and  *)
(* "." components (repeated or trailing separators) are skipped.           *)
(***************************************************************************)
IsNormalOrParent(c) == c # "" /\ c # "."

FileName(p) ==
    LET cs == SelectSeq(Split(p, "/"), IsNormalOrParent)
    IN  IF cs = <<>> THEN None
        ELSE IF cs[Len(cs)] = ".." THEN None
        ELSE Some(cs[Len(cs)])

\* rsplit_file_at_dot: <<before, after>> of the last '.', both options.
RsplitFileAtDot(f) ==
    IF f = ".." THEN <<Some(f), None>>
    ELSE LET i == RFind(f, ".")
         IN  IF i = 0 THEN <<Some(f), None>>
             ELSE IF i = 1 THEN <<Some(f), None>>
             ELSE <<Some(SubSeq(f, 1, i - 1)), Some(SubSeq(f, i + 1, Len(f)))>>

Extension(p) ==
    IF IsSome(FileName(p)) THEN RsplitFileAtDot(Get(FileName(p)))[2] ELSE None

FileStem(p) ==
    IF IsSome(FileName(p)) THEN RsplitFileAtDot(Get(FileName(p)))[1] ELSE None

(***************************************************************************)
(* SourceType and its two text forms (main.rs 8-24).                       *)
(***************************************************************************)
Tarball == "Tarball"

File == "File"

SourceTypes == {Tarball, File}

KebabCase(ty) == IF ty = Tarball THEN "tarball" ELSE "file"

FromKebabCase(s) == IF s = "tarball" THEN Tarball ELSE File

(***************************************************************************)
(* The type resolution of refresh_source (main.rs 148-162).                *)
(***************************************************************************)
\* Fault: only the last extension is looked at.
InferTypeLastExtensionOnly(filename) ==
    LET ext == UnwrapOrDefault(Extension(filename))
    IN  IF ext = "zip" \/ ext = "tgz" \/ ext = "tar" THEN Tarball ELSE File

InferType(filename) ==
    LET ext  == UnwrapOrDefault(Extension(filename))
        stem == UnwrapOrDefault(FileStem(filename))
        ext2 == UnwrapOrDefault(Extension(stem))
    IN  IF ext = "zip" \/ ext = "tgz" \/ ext2 = "tar" THEN Tarball ELSE File

ResolveType(ty, filename) ==
    IF IsSome(ty) THEN Get(ty)
    ELSE IF IsSome(filename) THEN InferType(Get(filename))
    ELSE File

(***************************************************************************)
(* url::Url, as far as refresh_source uses it: the text (as_str) and       *)
(* path_segments (main.rs 139-145).  A URL is kept in its normalised text. *)
(***************************************************************************)
Scheme(url) == SubSeq(url, 1, Find(url, ":") - 1)

AfterScheme(url) == SubSeq(url, Find(url, ":") + 1, Len(url))

\* The path of a URL's text from its first '/', cut before a query or fragment.
PathOf(rest) ==
    LET slash == Find(rest, "/")
        pathq == IF slash = 0 THEN "/" ELSE SubSeq(rest, slash, Len(rest))
        stop  == FindFrom(pathq, {"?", "#"}, 1)
    IN  IF stop = 0 THEN pathq ELSE SubSeq(pathq, 1, stop - 1)

\* None for a cannot-be-a-base URL (mailto:, data:), else the segments.
PathSegments(url) ==
    LET rest == AfterScheme(url)
    IN  IF StartsWith(rest, "//")
        THEN LET path == PathOf(SubSeq(rest, 3, Len(rest)))
             IN  Some(Split(SubSeq(path, 2, Len(path)), "/"))
        ELSE IF StartsWith(rest, "/")
        THEN LET path == PathOf(rest)
             IN  Some(Split(SubSeq(path, 2, Len(path)), "/"))
        ELSE None

LastPathSegment(url) ==
    LET segs == PathSegments(url)
    IN  IF IsSome(segs) THEN Some(Get(segs)[Len(Get(segs))]) ELSE None

(***************************************************************************)
(* chrono::DateTime<FixedOffset>: a local time of day and an offset in     *)
(* minutes.  to_rfc2822 and parse_from_rfc2822 (main.rs 104, 129) and the  *)
(* RFC 3339 text serde writes to and reads from the registry file.         *)
(***************************************************************************)
DateTimes == [secs : {1, 2}, off : {0, 60}]

Digits == <<"0", "1", "2", "3", "4", "5", "6", "7", "8", "9">>

DigitText(n) == Digits[n + 1]

TwoDigits(n) == DigitText(n \div 10) \o DigitText(n % 10)

OffsetText(off) == "+" \o TwoDigits(off \div 60) \o TwoDigits(off % 60)

to_rfc2822(dt) ==
    "Thu, 01 Jan 1970 00:00:" \o TwoDigits(dt.secs) \o " " \o OffsetText(dt.off)

\* The zone of an RFC 2822 date may be written "GMT" for a zero offset.
Rfc2822Texts(dt) ==
    {to_rfc2822(dt)} \cup
    (IF dt.off = 0 THEN {"Thu, 01 Jan 1970 00:00:" \o TwoDigits(dt.secs) \o " GMT"}
     ELSE {})

parse_from_rfc2822(s) ==
    IF \E dt \in DateTimes : s \in Rfc2822Texts(dt)
    THEN Some(CHOOSE dt \in DateTimes : s \in Rfc2822Texts(dt))
    ELSE None

to_rfc3339(dt) ==
    "1970-01-01T00:00:" \o TwoDigits(dt.secs) \o "+" \o TwoDigits(dt.off \div 60)
        \o ":" \o TwoDigits(dt.off % 60)

parse_from_rfc3339(s) == CHOOSE dt \in DateTimes : to_rfc3339(dt) = s

(***************************************************************************)
(* ssri::Integrity (main.rs 29, 192): the text is split at whitespace and  *)
(* each piece parsed as <algorithm>-<digest>; no piece at all parses to an *)
(* integrity without hashes.                                               *)
(***************************************************************************)
RECURSIVE SplitWhitespace(_)
SplitWhitespace(s) ==
    IF s = "" THEN <<>>
    ELSE IF CharAt(s, 1) \in WhitespaceChars
    THEN SplitWhitespace(SubSeq(s, 2, Len(s)))
    ELSE LET w == FindFrom(s, WhitespaceChars, 1)
             e == IF w = 0 THEN Len(s) + 1 ELSE w
         IN  <<SubSeq(s, 1, e - 1)>> \o SplitWhitespace(SubSeq(s, e, Len(s)))

RECURSIVE Trim(_)
Trim(s) ==
    IF s = "" THEN ""
    ELSE IF CharAt(s, 1) \in WhitespaceChars THEN Trim(SubSeq(s, 2, Len(s)))
    ELSE IF CharAt(s, Len(s)) \in WhitespaceChars THEN Trim(SubSeq(s, 1, Len(s) - 1))
    ELSE s

Algorithms == {"sha1", "sha256", "sha384", "sha512"}

IsHashText(t) ==
    /\ Len(Split(t, "-")) >= 2
    /\ Split(t, "-")[1] \in Algorithms

\* [ok, hashes]: the pieces, in the order written (the model's oracle
\* prints at most one hash, so the sort of the pieces moves nothing).
ParseIntegrity(s) ==
    LET pieces == SplitWhitespace(s)
    IN  IF \A i \in 1..Len(pieces) : IsHashText(pieces[i])
        THEN [ok |-> TRUE, hashes |-> pieces]
        ELSE [ok |-> FALSE, hashes |-> <<>>]

RECURSIVE JoinSpace(_)
JoinSpace(ts) ==
    IF ts = <<>> THEN ""
    ELSE IF Len(ts) = 1 THEN ts[1]
    ELSE ts[1] \o " " \o JoinSpace(Tail(ts))

IntegrityText(hashes) == JoinSpace(hashes)

(***************************************************************************)
(* Source (main.rs 26-49) and its JSON object (serde): every field but     *)
(* url is left out of the object when it is None.                          *)
(***************************************************************************)
NewSource(url) ==
    [hash |-> None, url |-> url, last_modified |-> None, etag |-> None, ty |-> None]

JsonKeys(s) ==
    {"url"}
    \cup (IF IsSome(s.hash) THEN {"hash"} ELSE {})
    \cup (IF IsSome(s.last_modified) THEN {"last-modified"} ELSE {})
    \cup (IF IsSome(s.etag) THEN {"etag"} ELSE {})
    \cup (IF IsSome(s.ty) THEN {"type"} ELSE {})

JsonValue(s, k) ==
    CASE k = "url" -> s.url
      [] k = "hash" -> IntegrityText(Get(s.hash))
      [] k = "last-modified" -> to_rfc3339(Get(s.last_modified))
      [] k = "etag" -> Get(s.etag)
      [] k = "type" -> KebabCase(Get(s.ty))

ToJson(s) == [k \in JsonKeys(s) |-> JsonValue(s, k)]

FromJson(j) ==
    [hash |-> IF "hash" \in DOMAIN j
              THEN Some(ParseIntegrity(j["hash"]).hashes) ELSE None,
     url |-> j["url"],
     last_modified |-> IF "last-modified" \in DOMAIN j
                       THEN Some(parse_from_rfc3339(j["last-modified"])) ELSE None,
     etag |-> IF "etag" \in DOMAIN j THEN Some(j["etag"]) ELSE None,
     ty |-> IF "type" \in DOMAIN j THEN Some(FromKebabCase(j["type"])) ELSE None]

(***************************************************************************)
(* The inputs of one refresh: the answer to the HEAD request and what the  *)
(* two processes do.  A response has a status and may carry ETag,          *)
(* Last-Modified and Content-Disposition (given by its parameters); a      *)
(* process either cannot be spawned or exits with a code and its stdout.   *)
(***************************************************************************)
Response(status, etag, lm, cd) ==
    [kind |-> "response", status |-> status, etag |-> etag, lm |-> lm, cd |-> cd]

TransportError ==
    [kind |-> "error", status |-> 0, etag |-> None, lm |-> None, cd |-> None]

Ran(code, stdout) == [spawned |-> TRUE, code |-> code, stdout |-> stdout]

SpawnError == [spawned |-> FALSE, code |-> 0, stdout |-> ""]

(***************************************************************************)
(* refresh_source (main.rs 95-198), step by step.                          *)
(***************************************************************************)
\* Fault: the cached ETag is sent also when there is no hash.
IfNoneMatchWithoutHash(source) ==
    IF IsSome(source.etag)
    THEN <<"If-None-Match", Get(source.etag)>> ELSE <<>>

\* 97-114: the conditional headers, only for a source that has a hash.
IfNoneMatch(source) ==
    IF IsSome(source.hash) /\ IsSome(source.etag)
    THEN <<"If-None-Match", Get(source.etag)>> ELSE <<>>

\* 105: assert!(time.ends_with(" +0000"))
AssertUtcFails(source) ==
    /\ IsSome(source.hash)
    /\ IsSome(source.last_modified)
    /\ ~EndsWith(to_rfc2822(Get(source.last_modified)), " +0000")

IfModifiedSince(source) ==
    IF IsSome(source.hash) /\ IsSome(source.last_modified)
    THEN LET time == to_rfc2822(Get(source.last_modified))
         IN  <<"If-Modified-Since", SubSeq(time, 1, Len(time) - 6) \o " GMT">>
    ELSE <<>>

ProbeEvent(source) ==
    [ev |-> "probe",
     argv |-> <<"HEAD", source.url>> \o IfNoneMatch(source) \o IfModifiedSince(source)]

\* 115: req.call()? fails on a transport error, on a scheme that is not
\* http(s) and on a status of 400 and above.
CallFails(source, probe) ==
    \/ Scheme(source.url) \notin {"http", "https"}
    \/ probe.kind = "error"
    \/ probe.status >= 400

\* Fault: the ETag is cached whatever its form.
ResponseEtagKeepsWeak(probe) == probe.etag

\* 120-126
ResponseEtag(probe) ==
    IF IsSome(probe.etag) /\ ~StartsWith(Get(probe.etag), "W/")
    THEN probe.etag ELSE None

\* 127-129
ResponseLastModified(probe) ==
    IF IsSome(probe.lm) THEN parse_from_rfc2822(Get(probe.lm)) ELSE None

\* Fault: the URL's last segment comes before the Content-Disposition.
FilenameHintPrefersUrl(source, probe) ==
    IF IsSome(LastPathSegment(source.url))
    THEN LastPathSegment(source.url)
    ELSE IF IsSome(probe.cd) THEN Get(probe.cd).filename ELSE None

\* 130-146
FilenameHint(source, probe) ==
    IF IsSome(probe.cd) /\ IsSome(Get(probe.cd).filename)
    THEN Get(probe.cd).filename
    ELSE LastPathSegment(source.url)

\* Fault: the hint is the store name as it is.
StoreNameUnsanitized(filename) ==
    IF IsSome(filename) THEN Get(filename) ELSE "source"

\* 165-167
StoreName(filename) ==
    IF IsSome(filename) THEN sanitize_file_name(Get(filename)) ELSE "source"

\* 163-173
FetchArgv(source, ty, filename) ==
    <<"nix-prefetch-url", "--name", StoreName(filename)>>
    \o (IF ty = Tarball THEN <<"--unpack">> ELSE <<>>)
    \o <<source.url>>

\* Fault: a second trailing newline is removed as well.
TrimTwoNewlines(stdout) ==
    IF EndsWith(stdout, "\n\n") THEN SubSeq(stdout, 1, Len(stdout) - 2)
    ELSE IF EndsWith(stdout, "\n") THEN SubSeq(stdout, 1, Len(stdout) - 1)
    ELSE stdout

\* 178-182
TrimOneNewline(stdout) ==
    IF EndsWith(stdout, "\n") THEN SubSeq(stdout, 1, Len(stdout) - 1) ELSE stdout

\* 184-186
ConvArgv(fetch) ==
    <<"nix", "hash", "to-sri", "--type", "sha256", TrimOneNewline(fetch.stdout)>>

Outcome(status, why, source, events) ==
    [status |-> status, why |-> why, source |-> source, events |-> events]

RefreshChanged(source, env) ==
    LET etag == ResponseEtag(env.probe)
        last_modified == ResponseLastModified(env.probe)
        filename == FilenameHint(source, env.probe)
        ty == ResolveType(source.ty, filename)
        probe == ProbeEvent(source)
        fetch == [ev |-> "fetch", argv |-> FetchArgv(source, ty, filename)]
        conv == [ev |-> "convert", argv |-> ConvArgv(env.fetch)]
        hash == ParseIntegrity(Trim(env.conv.stdout))
    IN  IF ~env.fetch.spawned
        THEN Outcome("err", "fetch-spawn", source, <<probe, fetch>>)
        ELSE IF ~env.conv.spawned
        THEN Outcome("err", "convert-spawn", source, <<probe, fetch, conv>>)
        ELSE IF ~hash.ok
        THEN Outcome("err", "integrity-parse", source, <<probe, fetch, conv>>)
        ELSE Outcome("ok", "changed",
                     [hash |-> Some(hash.hashes), url |-> source.url,
                      last_modified |-> last_modified, etag |-> etag,
                      ty |-> Some(ty)],
                     <<probe, fetch, conv>>)

\* Fault: a 304 answer returns a fresh source instead of the one given.
RefreshResetsOnNotModified(source, env) ==
    IF AssertUtcFails(source) THEN Outcome("panic", "assert-utc", source, <<>>)
    ELSE IF CallFails(source, env.probe)
    THEN Outcome("err", "transport", source, <<ProbeEvent(source)>>)
    ELSE IF env.probe.status = 304
    THEN Outcome("ok", "not-modified", NewSource(source.url), <<ProbeEvent(source)>>)
    ELSE RefreshChanged(source, env)

\* Fault: a response whose ETag is the cached one counts as not modified.
RefreshComparesValidators(source, env) ==
    IF AssertUtcFails(source) THEN Outcome("panic", "assert-utc", source, <<>>)
    ELSE IF CallFails(source, env.probe)
    THEN Outcome("err", "transport", source, <<ProbeEvent(source)>>)
    ELSE IF \/ env.probe.status = 304
            \/ (IsSome(source.etag) /\ env.probe.etag = source.etag)
    THEN Outcome("ok", "not-modified", source, <<ProbeEvent(source)>>)
    ELSE RefreshChanged(source, env)

refresh_source(source, env) ==
    IF AssertUtcFails(source) THEN Outcome("panic", "assert-utc", source, <<>>)
    ELSE IF CallFails(source, env.probe)
    THEN Outcome("err", "transport", source, <<ProbeEvent(source)>>)
    ELSE IF env.probe.status = 304
    THEN Outcome("ok", "not-modified", source, <<ProbeEvent(source)>>)
    ELSE RefreshChanged(source, env)

\* What an invocation keeps of one refresh: the name, the source given, the
\* inputs and the outcome.
Trace(name, source, env) ==
    [name |-> name, src |-> source, env |-> env, out |-> refresh_source(source, env)]

(***************************************************************************)
(* The registry file: absent, the text "{}" that add writes when it        *)
(* creates the file (main.rs 203-204), or a document written by            *)
(* to_writer_pretty, which maps each name to a source's JSON object.       *)
(***************************************************************************)
EmptyMap == [n \in {} |-> None]

AbsentFile == [kind |-> "absent", sources |-> EmptyMap]

BareFile == [kind |-> "bare", sources |-> EmptyMap]

\* serde_json::to_writer_pretty(file, &sources), after seek and set_len(0)
Save(sources) ==
    [kind |-> "doc", sources |-> [n \in DOMAIN sources |-> ToJson(sources[n])]]

\* serde_json::from_reader(&file): "{}" has no sources key and reads as the
\* default, the empty map (main.rs 53).
Load(f) == [n \in DOMAIN f.sources |-> FromJson(f.sources[n])]

Insert(sources, name, source) ==
    [n \in DOMAIN sources \cup {name} |-> IF n = name THEN source ELSE sources[n]]

\* Fault: every record goes with the one removed.
RemoveClears(sources, name) == EmptyMap

Remove(sources, name) == [n \in DOMAIN sources \ {name} |-> sources[n]]

(***************************************************************************)
(* The bounded inputs.                                                     *)
(***************************************************************************)
Names == {"a", "b"}

Urls == {"https://h/dl/pkg.tar.gz"}

TypeOptions == {None, Some(Tarball), Some(File)}

StrongEtag == "\"v1\""

WeakEtag == "W/\"v1\""

NotModified == Response(304, None, None, None)

NotFound == Response(404, None, None, None)

\* The answers that lead to a fetch: a strong ETag and a GMT date; a weak
\* ETag and a date east of Greenwich; a strong ETag, a date that does not
\* parse and a Content-Disposition that names the file.
ChangedResponses ==
    {Response(200, Some(StrongEtag), Some("Thu, 01 Jan 1970 00:00:01 GMT"), None),
     Response(200, Some(WeakEtag), Some("Thu, 01 Jan 1970 00:00:02 +0100"), None),
     Response(200, Some(StrongEtag), Some("yesterday"),
              Some([filename |-> Some("notes.txt")]))}

TypicalResponse ==
    Response(200, Some(StrongEtag), Some("Thu, 01 Jan 1970 00:00:01 GMT"), None)

FetchOk == Ran(0, "0f3c\n")

ConvOk == Ran(0, "sha256-AAAA=\n")

\* What the two processes may do: <<fetch, conversion>>.  Both succeed; the
\* fetch fails and prints nothing, and so does the conversion of the empty
\* text; the fetch prints a hash and then fails; the fetch cannot be
\* spawned; the conversion prints what is no integrity text.
GoodOracles == {<<FetchOk, ConvOk>>}

BadOracles ==
    {<<Ran(1, ""), Ran(1, "")>>,
     <<Ran(1, "0f3c\n"), ConvOk>>,
     <<SpawnError, ConvOk>>,
     <<FetchOk, Ran(0, "AAAA\n")>>}

Env(probe, oracles) == [probe |-> probe, fetch |-> oracles[1], conv |-> oracles[2]]

Envs ==
    {Env(p, <<FetchOk, ConvOk>>) : p \in {TransportError, NotFound, NotModified}}
    \cup {Env(p, o) : p \in ChangedResponses, o \in GoodOracles}
    \cup {Env(TypicalResponse, o) : o \in BadOracles}

\* HashMap iteration order: any order of the names.
Orders(S) ==
    {o \in [1..Cardinality(S) -> S] : \A i, j \in 1..Cardinality(S) : o[i] = o[j] => i = j}

(***************************************************************************)
(* The commands.  inv is the record of the last invocation: the command    *)
(* line, the file before it, how it ended and the refreshes it ran.        *)
(***************************************************************************)
Invocation(cmd, name, url, ty, status, why, log) ==
    [cmd |-> cmd, name |-> name, url |-> url, ty |-> ty, pre |-> file,
     status |-> status, why |-> why, log |-> log]

NoInvocation ==
    [cmd |-> "none", name |-> None, url |-> None, ty |-> None, pre |-> AbsentFile,
     status |-> "ok", why |-> "none", log |-> <<>>]

\* AddCommand::execute (main.rs 200-225)
AddOpen == IF file.kind = "absent" THEN BareFile ELSE file

AddSource(url, ty) == NewSource(url)

\* Fault: the name is taken and the record is overwritten before the error.
AddExistsOverwrites(name, url, ty) ==
    /\ file' = Save(Insert(Load(AddOpen), name, NewSource(url)))
    /\ inv' = Invocation("add", Some(name), Some(url), ty, "err", "exists", <<>>)

\* 214-216: the name is taken
AddExists(name, url, ty) ==
    /\ file' = AddOpen
    /\ inv' = Invocation("add", Some(name), Some(url), ty, "err", "exists", <<>>)

\* Fault: the new record is written alone, the records read are dropped.
AddRefreshedForgetsOthers(name, url, ty, sources, t) ==
    /\ file' = IF t.out.status = "ok"
               THEN Save(Insert(EmptyMap, name, t.out.source))
               ELSE AddOpen
    /\ inv' = Invocation("add", Some(name), Some(url), ty,
                         t.out.status, t.out.why, <<t>>)

\* 218-223: t is the refresh of the new source
AddRefreshed(name, url, ty, sources, t) ==
    /\ file' = IF t.out.status = "ok"
               THEN Save(Insert(sources, name, t.out.source))
               ELSE AddOpen
    /\ inv' = Invocation("add", Some(name), Some(url), ty,
                         t.out.status, t.out.why, <<t>>)

AddCommand ==
    /\ inv.cmd = "none"
    /\ \E name \in Names, url \in Urls, ty \in TypeOptions :
        \/ /\ name \in DOMAIN Load(AddOpen)
           /\ AddExists(name, url, ty)
        \/ /\ name \notin DOMAIN Load(AddOpen)
           /\ \E env \in Envs :
                AddRefreshed(name, url, ty, Load(AddOpen),
                             Trace(name, AddSource(url, ty), env))
    /\ UNCHANGED <<arg, ret>>

\* UpdateCommand::execute (main.rs 236-270)
\* 261-263: what the loop copies from the refreshed source
ApplyRefresh(source, new_source) ==
    [source EXCEPT !.hash = new_source.hash,
                   !.last_modified = new_source.last_modified,
                   !.etag = new_source.etag]

\* Fault: a refresh that fails is run a second time before the loop stops.
RECURSIVE RunBatchRetries(_, _, _, _)
RunBatchRetries(sources, targets, envs, log) ==
    IF targets = <<>>
    THEN [status |-> "ok", why |-> "done", sources |-> sources, log |-> log]
    ELSE LET name == Head(targets)
             t == Trace(name, sources[name], envs[name])
         IN  IF t.out.status # "ok"
             THEN [status |-> t.out.status, why |-> t.out.why,
                   sources |-> sources, log |-> Append(Append(log, t), t)]
             ELSE RunBatchRetries([sources EXCEPT ![name] = ApplyRefresh(@, t.out.source)],
                                  Tail(targets), envs, Append(log, t))

\* 258-264: the loop stops at the first refresh that fails
RECURSIVE RunBatch(_, _, _, _)
RunBatch(sources, targets, envs, log) ==
    IF targets = <<>>
    THEN [status |-> "ok", why |-> "done", sources |-> sources, log |-> log]
    ELSE LET name == Head(targets)
             t == Trace(name, sources[name], envs[name])
         IN  IF t.out.status # "ok"
             THEN [status |-> t.out.status, why |-> t.out.why,
                   sources |-> sources, log |-> Append(log, t)]
             ELSE RunBatch([sources EXCEPT ![name] = ApplyRefresh(@, t.out.source)],
                           Tail(targets), envs, Append(log, t))

\* 265-268: b is what the loop came to
UpdateFinish(name, b) ==
    /\ file' = IF b.status = "ok" THEN Save(b.sources) ELSE file
    /\ inv' = Invocation("update", name, None, None, b.status, b.why, b.log)

UpdateRun(name, sources, targets, envs) ==
    UpdateFinish(name, RunBatch(sources, targets, envs, <<>>))

UpdateCommand ==
    /\ inv.cmd = "none"
    /\ \/ /\ file.kind = "absent"
          /\ \E name \in {None} \cup {Some(n) : n \in Names} :
                inv' = Invocation("update", name, None, None, "err", "open", <<>>)
          /\ file' = file
       \/ /\ file.kind # "absent"
          /\ \E n \in Names \ DOMAIN Load(file) :
                inv' = Invocation("update", Some(n), None, None, "err", "missing", <<>>)
          /\ file' = file
       \/ /\ file.kind # "absent"
          /\ \E n \in DOMAIN Load(file) :
                \E envs \in [{n} -> Envs] :
                    UpdateRun(Some(n), Load(file), <<n>>, envs)
       \/ /\ file.kind # "absent"
          /\ \E order \in Orders(DOMAIN Load(file)) :
                \E envs \in [DOMAIN Load(file) -> Envs] :
                    UpdateRun(None, Load(file), order, envs)
    /\ UNCHANGED <<arg, ret>>

\* DeleteCommand::execute (main.rs 281-296)
DeleteCommand ==
    /\ inv.cmd = "none"
    /\ \E name \in Names :
        \/ /\ file.kind = "absent"
           /\ file' = file
           /\ inv' = Invocation("rm", Some(name), None, None, "err", "open", <<>>)
        \/ /\ file.kind # "absent"
           /\ name \notin DOMAIN Load(file)
           /\ file' = file
           /\ inv' = Invocation("rm", Some(name), None, None, "err", "missing", <<>>)
        \/ /\ file.kind # "absent"
           /\ name \in DOMAIN Load(file)
           /\ file' = Save(Remove(Load(file), name))
           /\ inv' = Invocation("rm", Some(name), None, None, "ok", "done", <<>>)
    /\ UNCHANGED <<arg, ret>>


\* Before the first invocation there is no registry file.
Init ==
    /\ file = AbsentFile
    /\ inv = NoInvocation
    /\ arg = None
    /\ ret = None

\* main (main.rs 330-338) runs one command and returns: the process ends,
\* and what is left of the invocation is the registry file.
Exit ==
    /\ inv.cmd # "none"
    /\ inv' = NoInvocation
    /\ UNCHANGED <<file, arg, ret>>

Next == AddCommand \/ UpdateCommand \/ DeleteCommand \/ Exit

Spec == Init /\ [][Next]_vars

(***************************************************************************)
(* The two pure functions on their own: arg is a call, ret its result.     *)
(* File names are built from a small alphabet (for sanitize_file_name) and *)
(* from dotted parts (for the type resolution).                            *)
(***************************************************************************)
MaxLen == 3

MaxParts == 3

Alphabet == {"a", ".", "~", "/"}

RECURSIVE Texts(_)
Texts(n) ==
    IF n = 0 THEN {""}
    ELSE Texts(n - 1) \cup {t \o c : t \in {u \in Texts(n - 1) : Len(u) = n - 1}, c \in Alphabet}

Parts == {"", "archive", "zip", "tgz", "tar", "gz", "d/e"}

RECURSIVE Dotted(_)
Dotted(n) ==
    IF n = 1 THEN Parts
    ELSE Dotted(n - 1) \cup {t \o "." \o q : t \in Dotted(n - 1), q \in Parts}

TableNames ==
    {"archive.zip", "archive.tgz", "archive.tar.gz", "archive.tar", "document.pdf"}

Hints == {None} \cup {Some(f) : f \in Dotted(MaxParts) \cup TableNames}

Calls ==
    {[fn |-> "sanitize_file_name", name |-> t, ty |-> None, filename |-> None] :
        t \in Texts(MaxLen) \cup TableNames}
    \cup {[fn |-> "resolve_type", name |-> "", ty |-> ty, filename |-> h] :
            ty \in TypeOptions, h \in Hints}

InitFn ==
    /\ file = AbsentFile
    /\ inv = NoInvocation
    /\ arg \in {Some(c) : c \in Calls}
    /\ ret = None

CallSanitize ==
    /\ ret = None
    /\ Get(arg).fn = "sanitize_file_name"
    /\ ret' = Some(sanitize_file_name(Get(arg).name))
    /\ UNCHANGED <<file, inv, arg>>

CallResolveType ==
    /\ ret = None
    /\ Get(arg).fn = "resolve_type"
    /\ ret' = Some(ResolveType(Get(arg).ty, Get(arg).filename))
    /\ UNCHANGED <<file, inv, arg>>

NextFn == CallSanitize \/ CallResolveType

SpecFn == InitFn /\ [][NextFn]_vars

(***************************************************************************)
(* refresh_source on its own: arg is a call with a source and the inputs   *)
(* of the refresh, ret the outcome.  The sources are all combinations of   *)
(* the cached fields, also those no command of this program writes (a      *)
(* registry file may come from an older version or from an editor); the    *)
(* URLs end in a file name, in '/', in a query, or have another scheme.    *)
(***************************************************************************)
RefreshUrls ==
    {"https://h/dl/pkg.tar.gz", "https://h/dl/", "https://h/notes.txt?v=a.zip",
     "ftp://h/a.zip"}

CachedHashes == {None, Some(<<"sha256-AAAA=">>)}

CachedEtags == {None, Some(StrongEtag)}

CachedDates == {None, Some([secs |-> 1, off |-> 0]), Some([secs |-> 2, off |-> 60])}

RefreshSources ==
    [hash : CachedHashes, url : RefreshUrls, last_modified : CachedDates,
     etag : CachedEtags, ty : TypeOptions]

\* Content-Disposition: absent, without a filename parameter, or with one.
Dispositions ==
    {None, Some([filename |-> None])}
    \cup {Some([filename |-> Some(f)]) : f \in {"notes.txt", "a.zip", ""}}

RefreshProbes ==
    {TransportError, NotFound, NotModified}
    \cup {Response(200, e, lm, cd) :
            e \in {None, Some(StrongEtag), Some(WeakEtag)},
            lm \in {None, Some("Thu, 01 Jan 1970 00:00:01 GMT")},
            cd \in Dispositions}

\* The fetch prints its hash with no, one or two newlines after it.
FetchOutputs == {"0f3c", "0f3c\n", "0f3c\n\n", "", "\n"}

RefreshFetches == {Ran(0, out) : out \in FetchOutputs} \cup {Ran(1, ""), SpawnError}

RefreshConvs == {ConvOk, Ran(0, "AAAA\n"), SpawnError}

RefreshCalls ==
    {[fn |-> "refresh_source", source |-> s, env |-> Env(p, <<FetchOk, ConvOk>>)] :
        s \in RefreshSources, p \in RefreshProbes}
    \cup {[fn |-> "refresh_source", source |-> NewSource(u),
           env |-> Env(TypicalResponse, <<f, c>>)] :
            u \in RefreshUrls, f \in RefreshFetches, c \in RefreshConvs}

InitRefresh ==
    /\ file = AbsentFile
    /\ inv = NoInvocation
    /\ arg \in {Some(c) : c \in RefreshCalls}
    /\ ret = None

CallRefresh ==
    /\ ret = None
    /\ Get(arg).fn = "refresh_source"
    /\ ret' = Some(refresh_source(Get(arg).source, Get(arg).env))
    /\ UNCHANGED <<file, inv, arg>>

NextRefresh == CallRefresh

SpecRefresh == InitRefresh /\ [][NextRefresh]_vars

(***************************************************************************)
(* What the properties below read off the last invocation.                 *)
(***************************************************************************)
Registry == Load(file)

Before == Load(inv.pre)

Refreshes == 1..Len(inv.log)

\* A process that was started and exited with a non-zero status.
FetchExitedNonZero(t) ==
    Len(t.out.events) >= 2 /\ t.env.fetch.spawned /\ t.env.fetch.code # 0

ConvExitedNonZero(t) ==
    Len(t.out.events) >= 3 /\ t.env.conv.spawned /\ t.env.conv.code # 0

WeakEtagAnswered(t) ==
    /\ t.out.why = "changed"
    /\ IsSome(t.env.probe.etag)
    /\ StartsWith(Get(t.env.probe.etag), "W/")

(***************************************************************************)
(* C1.  Override precedence: when add is given an explicit type, the       *)
(* refresh of the new source fetches with that type (--unpack exactly for  *)
(* tarball) and the new record stores that type, whatever the file name    *)
(* hint is.                                                                *)
(***************************************************************************)
C1_OverridePrecedence ==
    (/\ inv.cmd = "add"
     /\ IsSome(inv.ty)
     /\ Len(inv.log) = 1
     /\ inv.log[1].out.why = "changed")
    => /\ inv.log[1].out.source.ty = inv.ty
       /\ Registry[Get(inv.name)].ty = inv.ty
       /\ (Len(inv.log[1].out.events[2].argv) = 5) <=> (Get(inv.ty) = Tarball)

(***************************************************************************)
(* C2.  In every registry state, a record that has a hash has a type.      *)
(***************************************************************************)
C2_HashImpliesType ==
    \A n \in DOMAIN Registry : IsSome(Registry[n].hash) => IsSome(Registry[n].ty)

(***************************************************************************)
(* C3.  After a successful update, each refreshed record is either equal   *)
(* to the record before (not modified) or has the hash, last_modified,     *)
(* etag and type that its refresh derived.                                 *)
(***************************************************************************)
C3_RefreshReplacesGroup ==
    (inv.cmd = "update" /\ inv.status = "ok")
    => \A i \in Refreshes :
          IF inv.log[i].out.why = "not-modified"
          THEN Registry[inv.log[i].name] = inv.log[i].src
          ELSE /\ Registry[inv.log[i].name].hash = inv.log[i].out.source.hash
               /\ Registry[inv.log[i].name].last_modified
                      = inv.log[i].out.source.last_modified
               /\ Registry[inv.log[i].name].etag = inv.log[i].out.source.etag
               /\ Registry[inv.log[i].name].ty = inv.log[i].out.source.ty

(***************************************************************************)
(* C4.  Oracle failure is fatal: when the fetch process or the conversion  *)
(* process exits with a non-zero status, the refresh returns an error and  *)
(* the invocation leaves the registry as it was.                           *)
(***************************************************************************)
C4_OracleFailureFatal ==
    \A i \in Refreshes :
        (FetchExitedNonZero(inv.log[i]) \/ ConvExitedNonZero(inv.log[i]))
        => /\ inv.log[i].out.status = "err"
           /\ inv.status = "err"
           /\ Registry = Before

(***************************************************************************)
(* C5.  Failure atomicity: when a refresh of an add or update invocation   *)
(* fails (transport error, oracle failure, unparsable integrity text), no  *)
(* later source is refreshed and the registry file is what it was before   *)
(* the invocation.                                                         *)
(***************************************************************************)
RefreshFailed(t) ==
    \/ t.out.status # "ok"
    \/ FetchExitedNonZero(t)
    \/ ConvExitedNonZero(t)

C5_FailureAtomicity ==
    \A i \in Refreshes :
        RefreshFailed(inv.log[i]) => (i = Len(inv.log) /\ file = inv.pre)

(***************************************************************************)
(* C6.  Idempotence of the unchanged path: a refresh answered 304 returns  *)
(* its input source, and a successful update all of whose probes were      *)
(* answered 304 leaves every record of the registry as it was.             *)
(***************************************************************************)
AnsweredNotModified(t) ==
    /\ Len(t.out.events) >= 1
    /\ t.env.probe.kind = "response"
    /\ t.env.probe.status = 304

C6_UnchangedIdempotent ==
    /\ \A i \in Refreshes :
          AnsweredNotModified(inv.log[i])
          => (inv.log[i].out.status = "ok" /\ inv.log[i].out.source = inv.log[i].src)
    /\ (/\ inv.cmd = "update"
        /\ inv.status = "ok"
        /\ \A i \in Refreshes : AnsweredNotModified(inv.log[i]))
       => Registry = Before

C6_Witness ==
    /\ inv.cmd = "update"
    /\ inv.status = "ok"
    /\ Len(inv.log) = 2
    /\ \A i \in Refreshes :
          /\ AnsweredNotModified(inv.log[i])
          /\ IsSome(inv.log[i].src.hash)
          /\ IsSome(inv.log[i].src.etag)
          /\ IsSome(inv.log[i].src.last_modified)

(***************************************************************************)
(* C7.  Registry consistency errors do not mutate: add of a name that is   *)
(* in the registry fails and leaves the file as it was; update and rm of   *)
(* a name that is not in the registry fail and leave the file as it was.   *)
(***************************************************************************)
C7_ConsistencyErrorsKeepFile ==
    /\ (inv.cmd = "add" /\ Get(inv.name) \in DOMAIN Before)
       => (inv.status = "err" /\ file = inv.pre)
    /\ (inv.cmd \in {"update", "rm"} /\ IsSome(inv.name)
            /\ Get(inv.name) \notin DOMAIN Before)
       => (inv.status = "err" /\ file = inv.pre)

C7_Witness ==
    /\ inv.cmd = "add"
    /\ Get(inv.name) \in DOMAIN Before
    /\ IsSome(Before[Get(inv.name)].hash)
    /\ inv.why = "exists"

(***************************************************************************)
(* C8.  Extension inference table: without an explicit type, the hints     *)
(* archive.zip, archive.tgz, archive.tar.gz and archive.tar resolve to     *)
(* Tarball; document.pdf and no hint resolve to File.                      *)
(***************************************************************************)
C8_InferenceTable ==
    (/\ IsSome(ret)
     /\ Get(arg).fn = "resolve_type"
     /\ Get(arg).ty = None)
    => /\ Get(arg).filename \in {Some("archive.zip"), Some("archive.tgz"),
                                 Some("archive.tar.gz"), Some("archive.tar")}
          => Get(ret) = Tarball
       /\ Get(arg).filename \in {Some("document.pdf"), None}
          => Get(ret) = File

(***************************************************************************)
(* C9.  File name sanitisation: every character of the result, the first   *)
(* included, is alphanumeric or one of + - . _ ? =; a leading '.' becomes  *)
(* '_'; the empty name gives "source".                                     *)
(***************************************************************************)
AllowedChars ==
    DigitChars \cup LowerChars \cup UpperChars \cup {"+", "-", ".", "_", "?", "="}

C9_SanitizedName ==
    (IsSome(ret) /\ Get(arg).fn = "sanitize_file_name")
    => /\ \A i \in 1..Len(Get(ret)) : CharAt(Get(ret), i) \in AllowedChars
       /\ StartsWith(Get(arg).name, ".") => StartsWith(Get(ret), "_")
       /\ Get(arg).name = "" => Get(ret) = "source"

(***************************************************************************)
(* C10.  Weak-validator exclusion: a refresh whose response carries an     *)
(* ETag that begins with W/ yields a source without etag, and after a      *)
(* successful invocation the record has no etag, also when it had one      *)
(* before; no record of the registry has an etag that begins with W/.      *)
(***************************************************************************)
C10_WeakEtagNotCached ==
    /\ \A i \in Refreshes :
          WeakEtagAnswered(inv.log[i])
          => /\ inv.log[i].out.source.etag = None
             /\ inv.status = "ok" => Registry[inv.log[i].name].etag = None
    /\ \A n \in DOMAIN Registry :
          IsSome(Registry[n].etag) => ~StartsWith(Get(Registry[n].etag), "W/")

C10_Witness ==
    /\ inv.cmd = "update"
    /\ inv.status = "ok"
    /\ \E i \in Refreshes :
          /\ WeakEtagAnswered(inv.log[i])
          /\ IsSome(inv.log[i].src.etag)
          /\ Registry[inv.log[i].name].etag = None

(***************************************************************************)
(* C11.  End-to-end add: an add without explicit type of a URL whose last  *)
(* path segment ends in .tar.gz, answered by a success other than 304      *)
(* without Content-Disposition, both processes exiting 0 and the           *)
(* conversion printing an integrity text, succeeds and leaves a registry   *)
(* that holds the new name with type tarball, the hash the conversion      *)
(* printed (trimmed), the response's strong ETag (none for a weak or       *)
(* missing one) and its Last-Modified as parsed; every record stored       *)
(* before is unchanged and no other name is added.                         *)
(***************************************************************************)
PlainAdd ==
    /\ inv.cmd = "add"
    /\ inv.ty = None
    /\ Len(inv.log) = 1
    /\ EndsWith(Get(LastPathSegment(Get(inv.url))), ".tar.gz")
    /\ inv.log[1].env.probe.kind = "response"
    /\ inv.log[1].env.probe.status < 400
    /\ inv.log[1].env.probe.status # 304
    /\ inv.log[1].env.probe.cd = None
    /\ inv.log[1].env.fetch.spawned /\ inv.log[1].env.fetch.code = 0
    /\ inv.log[1].env.conv.spawned /\ inv.log[1].env.conv.code = 0
    /\ ParseIntegrity(Trim(inv.log[1].env.conv.stdout)).ok

HeaderEtag(probe) ==
    IF probe.etag = None THEN None
    ELSE IF SubSeq(Get(probe.etag), 1, 2) = "W/" THEN None
    ELSE probe.etag

Refreshed == IsSome(ret) /\ Get(arg).fn = "refresh_source"

Src == Get(arg).source

In == Get(arg).env

Out == Get(ret)

\* The headers of a request <<method, url, name, value, ...>>.
HeaderAt(argv) == {i \in 3..Len(argv) : i % 2 = 1}

HasHeader(argv, h) == \E i \in HeaderAt(argv) : argv[i] = h

HeaderValues(argv, h) == {argv[i + 1] : i \in {j \in HeaderAt(argv) : argv[j] = h}}

(***************************************************************************)
(* C12.  Every probe of a source without hash carries no header, also when *)
(* an etag or a last_modified is cached; every probe of a source with a    *)
(* hash carries If-None-Match exactly when an etag is cached, with that    *)
(* etag as its value, If-Modified-Since exactly when a last_modified is    *)
(* cached, and no other header.                                            *)
(***************************************************************************)
C12_ConditionalHeaders ==
    (Refreshed /\ Len(Out.events) >= 1)
    => LET argv == Out.events[1].argv
       IN  /\ Out.events[1].ev = "probe"
           /\ argv[1] = "HEAD" /\ argv[2] = Src.url
           /\ Src.hash = None => Len(argv) = 2
           /\ IsSome(Src.hash)
              => /\ HasHeader(argv, "If-None-Match") <=> IsSome(Src.etag)
                 /\ IsSome(Src.etag)
                    => HeaderValues(argv, "If-None-Match") = {Get(Src.etag)}
                 /\ HasHeader(argv, "If-Modified-Since") <=> IsSome(Src.last_modified)
                 /\ \A v \in HeaderValues(argv, "If-Modified-Since") : EndsWith(v, " GMT")
                 /\ \A i \in HeaderAt(argv) :
                        argv[i] \in {"If-None-Match", "If-Modified-Since"}

C12_Witness ==
    /\ Refreshed
    /\ Len(Out.events) >= 1
    /\ Src.hash = None
    /\ IsSome(Src.etag)
    /\ IsSome(Src.last_modified)
    /\ Len(Out.events[1].argv) = 2

(***************************************************************************)
(* C13.  Status 304 is the only unchanged signal: every probe answered by  *)
(* a success other than 304 is followed by an invocation of the fetch      *)
(* process and, once that process has run, by an invocation of the         *)
(* conversion process, also when the response's ETag and Last-Modified are *)
(* the cached ones.                                                        *)
(***************************************************************************)
AnsweredChanged(t) ==
    /\ Len(t.out.events) >= 1
    /\ t.env.probe.kind = "response"
    /\ t.env.probe.status < 400
    /\ t.env.probe.status # 304

SameValidators(t) ==
    /\ IsSome(t.src.etag)
    /\ t.env.probe.etag = t.src.etag
    /\ IsSome(t.src.last_modified)
    /\ IsSome(t.env.probe.lm)
    /\ parse_from_rfc2822(Get(t.env.probe.lm)) = t.src.last_modified

C13_OnlyNotModifiedSkips ==
    \A i \in Refreshes :
        AnsweredChanged(inv.log[i])
        => /\ Len(inv.log[i].out.events) >= 2
           /\ inv.log[i].out.events[2].ev = "fetch"
           /\ inv.log[i].env.fetch.spawned
              => /\ Len(inv.log[i].out.events) = 3
                 /\ inv.log[i].out.events[3].ev = "convert"

C13_Witness ==
    /\ inv.cmd = "update"
    /\ \E i \in Refreshes :
          /\ AnsweredChanged(inv.log[i])
          /\ SameValidators(inv.log[i])
          /\ IsSome(inv.log[i].src.hash)
          /\ Len(inv.log[i].out.events) = 3

(***************************************************************************)
(* C14.  The conversion process is given the output of the fetch process   *)
(* without its last character when that is a newline, and the whole output *)
(* otherwise: an output without trailing newline is passed as it is, one   *)
(* that ends in two newlines is passed with one newline left.              *)
(***************************************************************************)
NativeHash == Out.events[3].argv[Len(Out.events[3].argv)]

C14_TrimOneNewline ==
    (Refreshed /\ Len(Out.events) = 3)
    => /\ Out.events[3].ev = "convert"
       /\ SubSeq(Out.events[3].argv, 1, 5)
              = <<"nix", "hash", "to-sri", "--type", "sha256">>
       /\ Len(Out.events[3].argv) = 6
       /\ IF In.fetch.stdout # ""
             /\ CharAt(In.fetch.stdout, Len(In.fetch.stdout)) = "\n"
          THEN NativeHash \o "\n" = In.fetch.stdout
          ELSE NativeHash = In.fetch.stdout
       /\ In.fetch.stdout = "0f3c" => NativeHash = "0f3c"
       /\ In.fetch.stdout = "0f3c\n" => NativeHash = "0f3c"
       /\ In.fetch.stdout = "0f3c\n\n" => NativeHash = "0f3c\n"

C14_Witness ==
    /\ Refreshed
    /\ Len(Out.events) = 3
    /\ In.fetch.stdout = "0f3c\n\n"
    /\ NativeHash = "0f3c\n"

(***************************************************************************)
(* C15.  Step ordering without retry: in one invocation each source is     *)
(* refreshed at most once; the steps of a refresh are a probe, then at     *)
(* most one fetch, then at most one conversion, in this order; the fetch   *)
(* is invoked only after a probe answered by a success other than 304,     *)
(* the conversion only after the fetch process has returned; after a 304   *)
(* no process is invoked; and every refresh but the last of an invocation  *)
(* has returned with success before the next one starts.                   *)
(***************************************************************************)
Steps == <<"probe", "fetch", "convert">>

StepsInOrder(t) ==
    /\ Len(t.out.events) <= 3
    /\ \A k \in 1..Len(t.out.events) : t.out.events[k].ev = Steps[k]

C15_StepOrdering ==
    /\ \A i, j \in Refreshes : inv.log[i].name = inv.log[j].name => i = j
    /\ \A i \in Refreshes :
          /\ StepsInOrder(inv.log[i])
          /\ Len(inv.log[i].out.events) >= 2 => AnsweredChanged(inv.log[i])
          /\ Len(inv.log[i].out.events) = 3 => inv.log[i].env.fetch.spawned
          /\ AnsweredNotModified(inv.log[i]) => Len(inv.log[i].out.events) = 1
          /\ i < Len(inv.log)
             => /\ inv.log[i].out.status = "ok"
                /\ Len(inv.log[i].out.events) \in {1, 3}

C15_Witness ==
    /\ inv.cmd = "update"
    /\ inv.name = None
    /\ Len(inv.log) = 2
    /\ Len(inv.log[1].out.events) = 3
    /\ Len(inv.log[2].out.events) = 2
    /\ inv.status = "err"

(***************************************************************************)
(* C16.  Classification rule: an explicit type is the result; without one, *)
(* the result is Tarball exactly when there is a hint and the last         *)
(* extension of its file name is zip or tgz, or the extension of what      *)
(* remains before the last extension is tar; it is File in every other     *)
(* case and without a hint.  The file name is cut at its dots: a name has  *)
(* an extension when it has a dot that is not its first character.         *)
(***************************************************************************)
DotParts(h) == IF IsSome(FileName(h)) THEN Split(Get(FileName(h)), ".") ELSE <<>>

\* The parts p[1..n] are a name with an extension, p[n].
HasExtensionAt(p, n) == n >= 2 /\ n <= Len(p) /\ ~(n = 2 /\ p[1] = "")

LastExtensionIn(h, E) ==
    HasExtensionAt(DotParts(h), Len(DotParts(h)))
    /\ DotParts(h)[Len(DotParts(h))] \in E

StemExtensionIn(h, E) ==
    /\ HasExtensionAt(DotParts(h), Len(DotParts(h)))
    /\ HasExtensionAt(DotParts(h), Len(DotParts(h)) - 1)
    /\ DotParts(h)[Len(DotParts(h)) - 1] \in E

C16_ClassificationRule ==
    (IsSome(ret) /\ Get(arg).fn = "resolve_type")
    => /\ Get(ret) \in SourceTypes
       /\ IsSome(Get(arg).ty) => Get(ret) = Get(Get(arg).ty)
       /\ Get(arg).ty = None
          => (Get(ret) = Tarball
              <=> /\ IsSome(Get(arg).filename)
                  /\ \/ LastExtensionIn(Get(Get(arg).filename), {"zip", "tgz"})
                     \/ StemExtensionIn(Get(Get(arg).filename), {"tar"}))

C16_Witness ==
    /\ IsSome(ret)
    /\ Get(arg).fn = "resolve_type"
    /\ Get(arg).ty = None
    /\ Get(arg).filename = Some("archive.tar.gz")
    /\ Get(ret) = Tarball

(***************************************************************************)
(* C17.  Arguments of the fetch process: on every refresh that comes to    *)
(* the fetch, the command is nix-prefetch-url --name <store name>          *)
(* [--unpack] <url> with the URL of the source, a store name that is not   *)
(* empty (also for a URL that ends in '/' and for an empty                 *)
(* Content-Disposition filename), and --unpack exactly when the type the   *)
(* refresh resolved is Tarball.                                            *)
(***************************************************************************)
FetchCommand == Out.events[2].argv

Unpacks == Len(FetchCommand) = 5 /\ FetchCommand[4] = "--unpack"

C17_FetchArguments ==
    (Refreshed /\ Len(Out.events) >= 2)
    => /\ Out.events[2].ev = "fetch"
       /\ Len(FetchCommand) \in {4, 5}
       /\ FetchCommand[1] = "nix-prefetch-url"
       /\ FetchCommand[2] = "--name"
       /\ FetchCommand[3] # ""
       /\ FetchCommand[Len(FetchCommand)] = Src.url
       /\ Len(FetchCommand) = 5 => FetchCommand[4] = "--unpack"
       /\ Out.why = "changed" => (Unpacks <=> Out.source.ty = Some(Tarball))
       /\ IsSome(Src.ty) => (Unpacks <=> Src.ty = Some(Tarball))

C17_Witness ==
    /\ Refreshed
    /\ Len(Out.events) >= 2
    /\ Src.url = "https://h/dl/"
    /\ In.probe.cd = None
    /\ FetchCommand = <<"nix-prefetch-url", "--name", "source", "https://h/dl/">>

(***************************************************************************)
(* C18.  Filename hint priority: the hint that names the store path and    *)
(* from which the type is inferred is the filename parameter of the        *)
(* response's Content-Disposition when there is one, and else the last     *)
(* path segment of the URL.  A Content-Disposition filename decides the    *)
(* inferred type against the URL's last segment.                           *)
(***************************************************************************)
\* The last path segment of the http(s) URLs refreshed.
FinalSegment(url) ==
    CASE url = "https://h/dl/pkg.tar.gz" -> "pkg.tar.gz"
      [] url = "https://h/dl/" -> ""
      [] url = "https://h/notes.txt?v=a.zip" -> "notes.txt"

DispositionNamesFile == IsSome(In.probe.cd) /\ IsSome(Get(In.probe.cd).filename)

ExpectedHint ==
    IF DispositionNamesFile THEN Get(Get(In.probe.cd).filename)
    ELSE FinalSegment(Src.url)

C18_HintPriority ==
    (Refreshed /\ Len(Out.events) >= 2)
    => /\ FetchCommand[3] = sanitize_file_name(ExpectedHint)
       /\ (Src.ty = None /\ Out.why = "changed")
          => Out.source.ty = Some(InferType(ExpectedHint))
       /\ (Src.ty = None /\ Src.url = "https://h/dl/pkg.tar.gz"
              /\ In.probe.cd = Some([filename |-> Some("notes.txt")]))
          => (FetchCommand[3] = "notes.txt" /\ ~Unpacks)
       /\ (Src.ty = None /\ Src.url = "https://h/notes.txt?v=a.zip"
              /\ In.probe.cd = Some([filename |-> Some("a.zip")]))
          => (FetchCommand[3] = "a.zip" /\ Unpacks)
       /\ (Src.ty = None /\ Src.url = "https://h/dl/pkg.tar.gz"
              /\ ~DispositionNamesFile)
          => (FetchCommand[3] = "pkg.tar.gz" /\ Unpacks)

C18_Witness ==
    /\ Refreshed
    /\ Out.why = "changed"
    /\ Src.ty = None
    /\ Src.url = "https://h/dl/pkg.tar.gz"
    /\ In.probe.cd = Some([filename |-> Some("notes.txt")])
    /\ Out.source.ty = Some(File)
    /\ FetchCommand[3] = "notes.txt"

(***************************************************************************)
(* C19.  UTC assertion validity: starting without a registry, whatever     *)
(* Last-Modified the server sends, every cached last_modified has a zero   *)
(* offset, and no refresh fails the assertion that the cached time, as     *)
(* RFC 2822 text, ends in " +0000".                                        *)
(***************************************************************************)
C19_CachedLastModifiedUtc ==
    /\ \A n \in DOMAIN Registry :
          IsSome(Registry[n].last_modified) => Get(Registry[n].last_modified).off = 0
    /\ \A i \in Refreshes : inv.log[i].out.why # "assert-utc"

====
